---- MODULE Spec2Model ----
(***************************************************************************)
(* DNS record reconciliation of subshorts: records/models.py (Record and   *)
(* its classmethods list_records, create_record, retrieve_record,          *)
(* update_record, delete_record) over a local table, a shared cache and an *)
(* external DNS provider (records/providers/digitalocean.py).              *)
(*                                                                         *)
(* Strings are sequences of one-character strings, so that endswith,       *)
(* split('.') and str(int) are computed and not assumed.  A Python         *)
(* Optional value is a sequence of length 0 (None) or 1 (the value).       *)
(***************************************************************************)
EXTENDS Integers, Sequences, FiniteSets, TLC

VARIABLES store, nextId, cache, remote, remoteNext, last, running

vars == <<store, nextId, cache, remote, remoteNext, last, running>>

\* ------------------------------------------------------------------ bounds
\* Local ids 1..MaxId are handed out by the table, backend ids 1..MaxRemote by
\* the provider.
MaxId == 1
MaxRemote == 1

\* ------------------------------------------------------------ Python values
None == <<>>
Some(x) == <<x>>
IsNone(o) == Len(o) = 0
Val(o) == o[1]

\* str.endswith
EndsWith(s, suffix) ==
    /\ Len(suffix) <= Len(s)
    /\ SubSeq(s, Len(s) - Len(suffix) + 1, Len(s)) = suffix

\* str.startswith
StartsWith(s, prefix) ==
    /\ Len(prefix) <= Len(s)
    /\ SubSeq(s, 1, Len(prefix)) = prefix

Digits == <<"0", "1", "2", "3", "4", "5", "6", "7", "8", "9">>

\* str(n) of a non-negative integer
RECURSIVE ToStr(_)
ToStr(n) ==
    IF n < 10 THEN <<Digits[n + 1]>>
    ELSE ToStr(n \div 10) \o <<Digits[(n % 10) + 1]>>

\* ------------------------------------------------------------- the codec
\* full_name.split('.')
RECURSIVE SplitDot(_)
SplitDot(s) ==
    IF \A i \in 1..Len(s) : s[i] # "."
    THEN <<s>>
    ELSE LET i == CHOOSE j \in 1..Len(s) :
                     s[j] = "." /\ \A k \in 1..(j - 1) : s[k] # "."
         IN  <<SubSeq(s, 1, i - 1)>> \o SplitDot(SubSeq(s, i + 1, Len(s)))

\* '.'.join(parts)
RECURSIVE JoinDot(_)
JoinDot(parts) ==
    IF Len(parts) = 0 THEN <<>>
    ELSE IF Len(parts) = 1 THEN parts[1]
    ELSE parts[1] \o <<".">> \o JoinDot(Tail(parts))

split_name(full_name) ==
    LET names == SplitDot(full_name)
        hasService == Len(names) >= 3 /\ StartsWith(names[1], <<"_">>)
        service == IF hasService THEN Some(names[1]) ELSE None
        names1 == IF hasService THEN Tail(names) ELSE names
        hasProtocol == Len(names1) >= 2 /\ StartsWith(names1[1], <<"_">>)
        protocol == IF hasProtocol THEN Some(names1[1]) ELSE None
        names2 == IF hasProtocol THEN Tail(names1) ELSE names1
    IN  [service |-> service, protocol |-> protocol, name |-> JoinDot(names2)]

Prefixed(o) ==
    IF IsNone(o) THEN <<>>
    ELSE IF StartsWith(Val(o), <<"_">>) THEN <<Val(o)>>
    ELSE << <<"_">> \o Val(o) >>

join_name(service, protocol, name) ==
    JoinDot(Prefixed(service) \o Prefixed(protocol) \o <<name>>)

\* str.split(): the maximal runs of non-whitespace characters
Whitespace == {" ", "\t", "\n"}

RECURSIVE SplitWs(_)
SplitWs(s) ==
    IF \A i \in 1..Len(s) : s[i] \in Whitespace THEN <<>>
    ELSE LET b == CHOOSE j \in 1..Len(s) :
                     s[j] \notin Whitespace
                     /\ \A k \in 1..(j - 1) : s[k] \in Whitespace
             e == CHOOSE j \in b..Len(s) :
                     /\ \A k \in b..j : s[k] \notin Whitespace
                     /\ j = Len(s) \/ s[j + 1] \in Whitespace
         IN  <<SubSeq(s, b, e)>> \o SplitWs(SubSeq(s, e + 1, Len(s)))

\* str.strip()
RECURSIVE Strip(_)
Strip(s) ==
    IF Len(s) = 0 THEN s
    ELSE IF s[1] \in Whitespace THEN Strip(Tail(s))
    ELSE IF s[Len(s)] \in Whitespace THEN Strip(SubSeq(s, 1, Len(s) - 1))
    ELSE s

\* str.splitlines(): the lines between newlines, no empty line after a final
\* newline
RECURSIVE SplitLines(_)
SplitLines(s) ==
    IF Len(s) = 0 THEN <<>>
    ELSE IF \A i \in 1..Len(s) : s[i] # "\n" THEN <<s>>
    ELSE LET i == CHOOSE j \in 1..Len(s) :
                     s[j] = "\n" /\ \A k \in 1..(j - 1) : s[k] # "\n"
         IN  <<SubSeq(s, 1, i - 1)>> \o SplitLines(SubSeq(s, i + 1, Len(s)))

\* ' '.join(parts)
RECURSIVE JoinSpace(_)
JoinSpace(parts) ==
    IF Len(parts) = 0 THEN <<>>
    ELSE IF Len(parts) = 1 THEN parts[1]
    ELSE parts[1] \o <<" ">> \o JoinSpace(Tail(parts))

\* int(s): s is a decimal numeral, or ValueError
IsNumeral(s) ==
    Len(s) > 0 /\ \A i \in 1..Len(s) : \E d \in 1..10 : Digits[d] = s[i]

RECURSIVE ToInt(_)
ToInt(s) ==
    IF Len(s) = 0 THEN 0
    ELSE 10 * ToInt(SubSeq(s, 1, Len(s) - 1))
         + (CHOOSE d \in 0..9 : Digits[d + 1] = s[Len(s)])

\* the outcome of a codec call: the value returned, or the exception raised
Returned(v) == [exc |-> "ok", val |-> Some(v)]
Raised(exc) == [exc |-> exc, val |-> None]

\* split_data, lines 207-212
split_data(data) ==
    LET values == SplitWs(data)
        n == Len(values)
    IN  IF n > 1 /\ ~IsNumeral(values[1]) THEN Raised("ValueError")
        ELSE IF n = 4 /\ ~(IsNumeral(values[2]) /\ IsNumeral(values[3]))
        THEN Raised("ValueError")
        ELSE IF n = 0 THEN Raised("IndexError")
        ELSE Returned(
                [priority |-> IF n > 1 THEN Some(ToInt(values[1])) ELSE None,
                 weight |-> IF n = 4 THEN Some(ToInt(values[2])) ELSE None,
                 port |-> IF n = 4 THEN Some(ToInt(values[3])) ELSE None,
                 target |-> values[n]])

\* str(x) of an Optional integer that is present
StrOf(o) == IF IsNone(o) THEN <<>> ELSE <<ToStr(Val(o))>>

\* a join that writes the target alone
join_dataTargetOnly(priority, weight, port, target) == target

\* join_data, line 216
join_data(priority, weight, port, target) ==
    JoinSpace(StrOf(priority) \o StrOf(weight) \o StrOf(port) \o <<target>>)

\* the record types as the text of a zone line spells them
TypeText ==
    [A |-> <<"A">>, NS |-> <<"N", "S">>, CNAME |-> <<"C", "N", "A", "M", "E">>,
     MX |-> <<"M", "X">>, TXT |-> <<"T", "X", "T">>,
     AAAA |-> <<"A", "A", "A", "A">>, SRV |-> <<"S", "R", "V">>]

TypeNamed(text) ==
    IF \E ty \in DOMAIN TypeText : TypeText[ty] = text
    THEN CHOOSE ty \in DOMAIN TypeText : TypeText[ty] = text
    ELSE "other"

\* parse_record, lines 220-233
parse_record(raw_record) ==
    LET r == SplitWs(raw_record)
        n == Len(r)
        parts == split_name(r[1])
        data == split_data(r[n])
        ttlText == IF r[2] # <<"I", "N">> THEN r[2] ELSE r[3]
    IN  IF n = 0 THEN Raised("IndexError")
        ELSE IF data.exc # "ok" THEN Raised(data.exc)
        ELSE IF n < 2 THEN Raised("IndexError")
        ELSE IF r[2] = <<"I", "N">> /\ n < 3 THEN Raised("IndexError")
        ELSE IF ~IsNumeral(ttlText) THEN Raised("ValueError")
        ELSE IF n < 4 THEN Raised("IndexError")
        ELSE Returned(
                [name |-> parts.name, ttl |-> ToInt(ttlText),
                 type |-> TypeNamed(r[4]), service |-> parts.service,
                 protocol |-> parts.protocol,
                 priority |-> Val(data.val).priority,
                 weight |-> Val(data.val).weight,
                 port |-> Val(data.val).port,
                 target |-> Val(data.val).target])

\* ------------------------------------------------------------ the records
Fields ==
    {"name", "ttl", "type", "service", "protocol", "priority", "weight",
     "port", "target"}

ImmutableFields == {"name", "type", "service", "protocol"}

RecordTypes == {"A", "NS", "CNAME", "MX", "TXT", "AAAA", "SRV"}

FqdnTypes == {"NS", "CNAME", "MX", "SRV"}

\* kwargs.get(k) of a dict of field values: the Optional of the field
Get(kwargs, k) == IF k \in DOMAIN kwargs THEN Some(kwargs[k]) ELSE None

\* the subdomains known to the application: a name inside a domain
Subdomains ==
    { [name |-> <<"a", "b">>, domain |-> "d1"],
      [name |-> <<"b">>, domain |-> "d1"] }

\* ---------------------------------------------------------------- inputs
InputNames == { <<"b">>, <<"a", "b">> }
InputTypes == {"A", "NS"}

Form(n, t, ty, tg) ==
    [name |-> n, ttl |-> t, type |-> ty, service |-> None, protocol |-> None,
     priority |-> None, weight |-> None, port |-> None, target |-> tg]

\* what a caller passes to create_record: every field of the form
CreateInputs ==
    { Form(<<"b">>, 60, "A", <<"t">>),
      Form(<<"a", "b">>, 60, "NS", <<"t">>),
      Form(<<"a", "b">>, 60, "NS", <<"t", ".">>) }

\* what a caller passes to update_record: the form's fields, or some of them
\* (always with ttl and target, which the provider's update reads)
UpdateInputs ==
    { Form(<<"b">>, 300, "A", <<"t", ".">>),
      [ttl |-> 300, target |-> <<"t">>] }

\* the provider argument of an operation and the fate of its call: no
\* provider, a provider that answers, a provider that raises
Modes == { <<FALSE, FALSE>>, <<TRUE, FALSE>>, <<TRUE, TRUE>> }

Ids == 1..MaxId

\* ----------------------------------------------------------- the provider
\* records/providers/digitalocean.py.  The backend holds native records
\* [id, domain, name, ttl, type, data, priority, weight, port]; every call
\* either answers or raises DnsRecordProviderError (the perr input of the
\* operations below).
to_digitalocean_record(record) ==
    [name |-> join_name(record.service, record.protocol, record.name),
     ttl |-> record.ttl, type |-> record.type, data |-> record.target,
     priority |-> record.priority, weight |-> record.weight,
     port |-> record.port]

from_digitalocean_record(n) ==
    LET parts == split_name(n.name)
    IN  [provider_id |-> Some(IF "id" \in DOMAIN n THEN ToStr(n.id)
                              ELSE <<"N", "o", "n", "e">>),
         name |-> parts.name, ttl |-> n.ttl,
         type |-> n.type, service |-> parts.service,
         protocol |-> parts.protocol, target |-> n.data,
         priority |-> n.priority, weight |-> n.weight, port |-> n.port]

\* the backend's records of a domain, in the order of their ids
RECURSIVE ById(_)
ById(S) ==
    IF S = {} THEN <<>>
    ELSE LET m == CHOOSE x \in S : \A y \in S : x.id <= y.id
         IN  <<m>> \o ById(S \ {m})

RECURSIVE MapFrom(_)
MapFrom(ns) ==
    IF Len(ns) = 0 THEN <<>>
    ELSE <<from_digitalocean_record(Head(ns))>> \o MapFrom(Tail(ns))

ProviderList(rem, subdomain) ==
    SelectSeq(MapFrom(ById({n \in rem : n.domain = subdomain.domain})),
              LAMBDA x : EndsWith(x.name, subdomain.name))

\* POST .../records: the native record the backend adds under a fresh id
ProviderCreated(nid, subdomain, kwargs) ==
    [id |-> nid, domain |-> subdomain.domain]
        @@ to_digitalocean_record(kwargs)

\* GET .../records/{provider_id}: the record, or None when the backend has none
ProviderRetrieve(rem, subdomain, provider_id) ==
    LET found == {n \in rem : /\ n.domain = subdomain.domain
                              /\ provider_id = Some(ToStr(n.id))}
    IN  IF found = {} THEN None
        ELSE Some(from_digitalocean_record(CHOOSE n \in found : TRUE))

\* update_record: ttl and data always, priority / weight / port by type
ProviderUpdate(rem, subdomain, provider_id, kwargs) ==
    LET type == Get(kwargs, "type")
        upd(n) ==
            [n EXCEPT
               !.ttl = kwargs["ttl"],
               !.data = kwargs["target"],
               !.priority = IF type \in {Some("MX"), Some("SRV")}
                            THEN kwargs["priority"] ELSE @,
               !.weight = IF type = Some("SRV") THEN kwargs["weight"] ELSE @,
               !.port = IF type = Some("SRV") THEN kwargs["port"] ELSE @]
    IN  IF ~EndsWith(IF "name" \in DOMAIN kwargs THEN kwargs["name"]
                     ELSE subdomain.name, subdomain.name)
        THEN rem
        ELSE { IF n.domain = subdomain.domain /\ provider_id = Some(ToStr(n.id))
               THEN upd(n) ELSE n : n \in rem }

\* update_record, lines 34-37: past the name check, int(provider_id) raises
\* TypeError for a row that has no provider id
ProviderUpdateFails(subdomain, provider_id, kwargs) ==
    /\ EndsWith(IF "name" \in DOMAIN kwargs THEN kwargs["name"]
                ELSE subdomain.name, subdomain.name)
    /\ IsNone(provider_id)

\* DELETE .../records/{provider_id}
ProviderDelete(rem, subdomain, provider_id) ==
    { n \in rem : ~(/\ n.domain = subdomain.domain
                    /\ provider_id = Some(ToStr(n.id))) }


\* ------------------------------------------------------------ local table
\* Record rows: the fields, plus id, provider_id (unique, null allowed),
\* subdomain_name and domain.
NewRecord(id, provider_id, subdomain, kwargs) ==
    [id |-> id, provider_id |-> provider_id,
     subdomain_name |-> subdomain.name, domain |-> subdomain.domain]
        @@ kwargs

\* cls.objects.filter(subdomain_name=subdomain.name)
FilterBySubdomain(st, subdomain) ==
    {r \in st : r.subdomain_name = subdomain.name}

\* cls.objects.get(subdomain_name=subdomain.name, pk=id), None for DoesNotExist
GetRecord(st, subdomain, id) ==
    LET found == {r \in FilterBySubdomain(st, subdomain) : r.id = id}
    IN  IF found = {} THEN None ELSE Some(CHOOSE r \in found : TRUE)

\* a table without the unique constraint
UniqueOkAlways(st, r) == TRUE

\* the unique constraint on provider_id: whether saving r is accepted
UniqueOk(st, r) ==
    \/ IsNone(r.provider_id)
    \/ \A o \in st : o.id = r.id \/ o.provider_id # r.provider_id

\* the table after record.save()
Save(st, r) == {o \in st : o.id # r.id} \cup {r}

RemoveNothing(st, r) == st

\* the table after record.delete()
Remove(st, r) == {o \in st : o.id # r.id}

\* order_by('type', 'name', '-id'): strings compare by character code
TypeOrder == <<"A", "AAAA", "CNAME", "MX", "NS", "SRV", "TXT">>

Alphabet == <<".", "_", "a", "b", "c", "t">>

IndexIn(seq, x) == CHOOSE i \in 1..Len(seq) : seq[i] = x

RECURSIVE StrLess(_, _)
StrLess(a, b) ==
    IF Len(b) = 0 THEN FALSE
    ELSE IF Len(a) = 0 THEN TRUE
    ELSE IF Head(a) = Head(b) THEN StrLess(Tail(a), Tail(b))
    ELSE IndexIn(Alphabet, Head(a)) < IndexIn(Alphabet, Head(b))

\* an order that ends with the id ascending
RecordBeforeIdAscending(a, b) ==
    \/ IndexIn(TypeOrder, a.type) < IndexIn(TypeOrder, b.type)
    \/ /\ a.type = b.type
       /\ \/ StrLess(a.name, b.name)
          \/ a.name = b.name /\ a.id < b.id

RecordBefore(a, b) ==
    \/ IndexIn(TypeOrder, a.type) < IndexIn(TypeOrder, b.type)
    \/ /\ a.type = b.type
       /\ \/ StrLess(a.name, b.name)
          \/ a.name = b.name /\ a.id > b.id

RECURSIVE OrderRecords(_)
OrderRecords(S) ==
    IF S = {} THEN <<>>
    ELSE LET m == CHOOSE x \in S : \A y \in S \ {x} : RecordBefore(x, y)
         IN  <<m>> \o OrderRecords(S \ {m})

\* update_by_provider_record: the record after the field-by-field copy
UpdatedByProviderKeeps(r, provider_record) == r

UpdatedByProvider(r, provider_record) ==
    [k \in DOMAIN r |->
        IF k \in DOMAIN provider_record THEN provider_record[k] ELSE r[k]]

\* ------------------------------------------------------------------ cache
\* Two key families of one key-value store: 'records:' + str(subdomain) and
\* 'records:' + str(id).  An entry is None (absent) or Some([value, timeout]).
ListTimeout == 3600

Entry(value, timeout) ==
    IF timeout > 0 THEN Some([value |-> value, timeout |-> timeout]) ELSE None

CacheGetListMisses(c, subdomain) == None

CacheGetList(c, subdomain) ==
    IF IsNone(c.list[subdomain]) THEN None
    ELSE Some(Val(c.list[subdomain]).value)

CacheGetRecord(c, id) ==
    IF id \in DOMAIN c.rec /\ ~IsNone(c.rec[id])
    THEN Some(Val(c.rec[id]).value) ELSE None

CacheSetListSkipped(c, subdomain, records) == c

CacheSetList(c, subdomain, records) ==
    [c EXCEPT !.list[subdomain] = Entry(records, ListTimeout)]

CacheSetRecordFixedTimeout(c, record) ==
    [c EXCEPT !.rec[record.id] = Entry(record, ListTimeout)]

CacheSetRecord(c, record) ==
    [c EXCEPT !.rec[record.id] = Entry(record, record.ttl)]

CacheDeleteList(c, subdomain) == [c EXCEPT !.list[subdomain] = None]

CacheDeleteRecordSkipped(c, id) == c

CacheDeleteRecord(c, id) ==
    IF id \in DOMAIN c.rec THEN [c EXCEPT !.rec[id] = None] ELSE c

RECURSIVE CacheSetRecords(_, _)
CacheSetRecords(c, records) ==
    IF Len(records) = 0 THEN c
    ELSE CacheSetRecords(CacheSetRecord(c, Head(records)), Tail(records))

\* --------------------------------------------------------- what happened
\* last: the operation that has just run and whose result its caller holds:
\* its inputs (args: the fields passed), whether the provider was called
\* (calls), what was sent to it and whether it raised (perr), which rows
\* were saved and removed, and what the caller gets (outcome "ok" with
\* result, or the error raised).  Idle between two requests.
Idle ==
    [op |-> "none", sub |-> None, id |-> 0, prov |-> FALSE, args |-> None,
     perr |-> FALSE, hit |-> FALSE, calls |-> {}, sent |-> None, saved |-> {},
     removed |-> {}, outcome |-> "ok", result |-> None]

\* the report of an operation: `more` gives the fields that differ from Idle
Done(op, s, id, prov, outcome, result, more) ==
    more @@ [op |-> op, sub |-> Some(s), id |-> id, prov |-> prov,
             outcome |-> outcome, result |-> result] @@ Idle

\* the list_records calls that run side by side, and where each of them is:
\* its position (pc), the subdomain, the provider's records it fetched, the
\* rows it still has to delete, its record_dict, its place i in the loop
\* over the provider's records, the row update_or_create holds, the ordered
\* rows it read and its place j in the loop over them
Procs == {1, 2}

Call(pc) ==
    [pc |-> pc, sub |-> None, provider_records |-> <<>>, stale |-> {},
     record_dict |-> {}, i |-> 1, obj |-> None, records |-> <<>>, j |-> 1,
     raced |-> FALSE, outcome |-> "ok"]

Init ==
    /\ store = {}
    /\ nextId = 1
    /\ cache = [list |-> [s \in Subdomains |-> None], rec |-> [i \in Ids |-> None]]
    /\ remote = {}
    /\ remoteNext = 1
    /\ last = Idle
    /\ running = [p \in Procs |-> Call("none")]

\* The effect of an operation is the state it leaves: an operation that
\* raises before it writes leaves everything but `last` as it was.
Raises(l) ==
    [store |-> store, nextId |-> nextId, cache |-> cache, remote |-> remote,
     remoteNext |-> remoteNext, last |-> l]

Effect(st, nid, c, rem, remNext, l) ==
    [store |-> st, nextId |-> nid, cache |-> c, remote |-> rem,
     remoteNext |-> remNext, last |-> l]

\* an operation starts when no other is running and, in the model, while the
\* ids it hands out stay within the bounds
Apply(e) ==
    /\ last = Idle
    /\ e.nextId <= MaxId + 1
    /\ e.remoteNext <= MaxRemote + 1
    /\ store' = e.store
    /\ nextId' = e.nextId
    /\ cache' = e.cache
    /\ remote' = e.remote
    /\ remoteNext' = e.remoteNext
    /\ last' = e.last
    /\ UNCHANGED running

\* `if provider: try: <call> except DnsRecordProviderError as e: logging.error(e)`:
\* "skip" without a provider, "caught" when the call raises, "done" when it
\* answers ("raised" is an error that leaves the operation).
TryProviderWithoutProvider(prov, perr) ==
    IF prov /\ perr THEN "caught" ELSE "done"

TryProviderRaises(prov, perr) ==
    IF ~prov THEN "skip" ELSE IF perr THEN "raised" ELSE "done"

TryProviderIgnoresError(prov, perr) ==
    IF ~prov THEN "skip" ELSE "done"

TryProvider(prov, perr) ==
    IF ~prov THEN "skip" ELSE IF perr THEN "caught" ELSE "done"

\* ------------------------------------------------------------ list_records
ProviderIds(prs) == {prs[i].provider_id : i \in 1..Len(prs)}

\* lines 71-73: rows of the subdomain the provider no longer lists are deleted
ListDeletesNothing(st, subdomain, provider_record_id_set) == st

ListDeletes(st, subdomain, provider_record_id_set) ==
    {r \in st : ~(/\ r \in FilterBySubdomain(st, subdomain)
                  /\ r.provider_id \notin provider_record_id_set)}

\* lines 76-85, one provider record: a row of record_dict is updated field by
\* field and saved if it changed; otherwise update_or_create by provider_id
\* updates the row that carries the id (always saved) or inserts a new one.
ReconcileOne(provider_record, record_dict, acc, subdomain) ==
    LET provider_id == provider_record.provider_id
        known == {d \in record_dict : d.provider_id = provider_id}
        defaults ==
            [subdomain_name |-> subdomain.name, domain |-> subdomain.domain]
                @@ provider_record
        rows == {r \in acc.store : r.provider_id = provider_id}
    IN  IF known # {}
        THEN LET d == CHOOSE x \in known : TRUE
                 new == UpdatedByProvider(d, provider_record)
             IN  IF new # d
                 THEN [acc EXCEPT !.store = Save(@, new),
                                  !.saved = @ \cup {d.id}]
                 ELSE acc
        ELSE IF rows # {}
        THEN LET row == CHOOSE x \in rows : TRUE
             IN  [acc EXCEPT !.store = Save(@, UpdatedByProvider(row, defaults)),
                             !.saved = @ \cup {row.id}]
        ELSE [store |-> Save(acc.store,
                             NewRecord(acc.nextId, provider_id, subdomain,
                                       provider_record)),
              nextId |-> acc.nextId + 1,
              saved |-> acc.saved \cup {acc.nextId}]

RECURSIVE Reconcile(_, _, _, _)
Reconcile(provider_records, record_dict, acc, subdomain) ==
    IF Len(provider_records) = 0 THEN acc
    ELSE Reconcile(Tail(provider_records), record_dict,
                   ReconcileOne(Head(provider_records), record_dict, acc,
                                subdomain),
                   subdomain)

\* list_records run from a given table, cache and backend
ListEffectFrom(st, nid, c, rem, remNext, s, prov, perr) ==
    LET cache_value == CacheGetList(c, s)
        try == TryProvider(prov, perr)
        provider_records == ProviderList(rem, s)
        deleted == ListDeletes(st, s, ProviderIds(provider_records))
        acc == IF try = "done"
               THEN Reconcile(provider_records, FilterBySubdomain(deleted, s),
                              [store |-> deleted, nextId |-> nid,
                               saved |-> {}], s)
               ELSE [store |-> st, nextId |-> nid, saved |-> {}]
        records == OrderRecords(FilterBySubdomain(acc.store, s))
        calls == IF prov THEN {"list"} ELSE {}
    IN  IF ~IsNone(cache_value)
        THEN Effect(st, nid, c, rem, remNext,
                    Done("List", s, 0, prov, "ok", Val(cache_value),
                         [hit |-> TRUE]))
        ELSE IF try = "raised"
        THEN Effect(st, nid, c, rem, remNext,
                    Done("List", s, 0, prov, "ProviderError", <<>>,
                         [perr |-> TRUE, calls |-> calls]))
        ELSE Effect(acc.store, acc.nextId,
                    CacheSetRecords(CacheSetList(c, s, records), records),
                    rem, remNext,
                    Done("List", s, 0, prov, "ok", records,
                         [perr |-> prov /\ perr, calls |-> calls,
                          saved |-> acc.saved,
                          removed |-> {r.id : r \in st}
                                          \ {r.id : r \in acc.store}]))

ListEffect(s, prov, perr) ==
    ListEffectFrom(store, nextId, cache, remote, remoteNext, s, prov, perr)

ListRecords(s, prov, perr) == Apply(ListEffect(s, prov, perr))

\* ----------------------------------------------------------- create_record
\* line 96: kwargs.get('name', '').endswith(subdomain.name)
CreateNameAlwaysValid(kwargs, subdomain) == TRUE

CreateNameValid(kwargs, subdomain) ==
    EndsWith(IF "name" \in DOMAIN kwargs THEN kwargs["name"] ELSE <<>>,
             subdomain.name)

\* lines 98-99 and 144-145 (kwargs that name an FQDN type carry a target)
NormalizeTargetSkipped(kwargs) == kwargs

NormalizeTarget(kwargs) ==
    IF /\ "type" \in DOMAIN kwargs
       /\ kwargs["type"] \in FqdnTypes
       /\ ~EndsWith(kwargs["target"], <<".">>)
    THEN [kwargs EXCEPT !["target"] = @ \o <<".">>]
    ELSE kwargs

\* lines 101-106: the provider_id of the new row
CreatedProviderIdDropped(try, provider_record) == None

CreatedProviderId(try, provider_record) ==
    IF try = "done" THEN provider_record.provider_id ELSE None

CreateEffectFrom(st, nid, c, rem0, remNext0, s, kwargs0, prov, perr) ==
    LET kwargs == NormalizeTarget(kwargs0)
        try == TryProvider(prov, perr)
        native == ProviderCreated(remNext0, s, kwargs)
        provider_record == from_digitalocean_record(native)
        record == NewRecord(nid, CreatedProviderId(try, provider_record),
                            s, kwargs)
        more == [args |-> Some(kwargs0), calls |-> IF prov THEN {"create"} ELSE {},
                 sent |-> IF prov THEN Some(kwargs) ELSE None,
                 perr |-> prov /\ perr]
        rem == IF try = "done" THEN rem0 \cup {native} ELSE rem0
        remNext == IF try = "done" THEN remNext0 + 1 ELSE remNext0
    IN  IF ~CreateNameValid(kwargs0, s)
        THEN Effect(st, nid, c, rem0, remNext0,
                    Done("Create", s, 0, prov, "BadRequest", None,
                         [args |-> Some(kwargs0)]))
        ELSE IF try = "raised"
        THEN Effect(st, nid, c, rem0, remNext0,
                    Done("Create", s, 0, prov, "ProviderError", None, more))
        ELSE IF ~UniqueOk(st, record)
        THEN Effect(st, nid, c, rem, remNext,
                    Done("Create", s, 0, prov, "IntegrityError", None, more))
        ELSE Effect(Save(st, record), nid + 1,
                    CacheSetRecord(CacheDeleteList(c, s), record),
                    rem, remNext,
                    Done("Create", s, record.id, prov, "ok", Some(record),
                         [saved |-> {record.id}] @@ more))

CreateEffect(s, kwargs0, prov, perr) ==
    CreateEffectFrom(store, nextId, cache, remote, remoteNext,
                     s, kwargs0, prov, perr)

CreateRecord(s, kwargs, prov, perr) == Apply(CreateEffect(s, kwargs, prov, perr))

\* -------------------------------------------------------------- import_zone
\* the zones a caller imports: a record line followed by a comment line, a
\* record line followed by a blank line, a comment line followed by a line of
\* two tokens, and two record lines
ZoneInputs ==
    { <<"b", " ", "6", "0", " ", "I", "N", " ", "A", " ", "t", "\n", ";", "c">>,
      <<"b", " ", "6", "0", " ", "I", "N", " ", "A", " ", "t", "\n", "\n">>,
      <<";", "c", "\n", "b", " ", "6", "0">>,
      <<"b", " ", "6", "0", " ", "I", "N", " ", "A", " ", "t", "\n", "b", " ", "6", "0", " ", "I", "N", " ", "N", "S", " ", "t">> }

\* line 185: the stripped lines; x[0] of an empty line raises IndexError
StrippedLines(zone) ==
    [i \in 1..Len(SplitLines(zone)) |-> Strip(SplitLines(zone)[i])]

ImportReport(l, step) ==
    [l EXCEPT !.perr = @ \/ step.perr,
              !.calls = @ \cup step.calls,
              !.saved = @ \cup step.saved,
              !.outcome = step.outcome]

\* line 187: one line parsed and created from the state e
ImportStep(e, line, s, prov, perr) ==
    CHOOSE next \in
        { IF parsed.exc # "ok" THEN [e EXCEPT !.last.outcome = parsed.exc]
          ELSE LET step == CreateEffectFrom(e.store, e.nextId, e.cache,
                                            e.remote, e.remoteNext, s,
                                            Val(parsed.val), prov, perr)
               IN  [step EXCEPT !.last = ImportReport(e.last, step.last)] :
              parsed \in {parse_record(line)} } : TRUE

\* lines 186-187: the loop over the lines, left by the first exception
RECURSIVE ImportFrom(_, _, _, _, _, _)
ImportFrom(e, lines, i, s, prov, perr) ==
    IF i > Len(lines) THEN e
    ELSE CHOOSE end \in
             { IF next.last.outcome # "ok" THEN next
               ELSE ImportFrom(next, lines, i + 1, s, prov, perr) :
                   next \in {ImportStep(e, lines[i], s, prov, perr[i])} } : TRUE

ImportEffect(s, zone, prov, perr) ==
    LET start == Raises([Idle EXCEPT !.op = "Import", !.sub = Some(s),
                                     !.prov = prov, !.args = Some(zone)])
        stripped == StrippedLines(zone)
    IN  IF \E i \in 1..Len(stripped) : Len(stripped[i]) = 0
        THEN [start EXCEPT !.last.outcome = "IndexError"]
        ELSE ImportFrom(start, SelectSeq(stripped, LAMBDA x : x[1] # ";"),
                        1, s, prov, perr)

ImportZone(s, zone, prov, perr) == Apply(ImportEffect(s, zone, prov, perr))

\* --------------------------------------------------------- retrieve_record
\* lines 115-116: cache.get('records:' + str(id), default) where default is
\* the first record with that id in the cached list of the subdomain
RetrieveCached(c, subdomain, id) ==
    LET list == IF IsNone(CacheGetList(c, subdomain)) THEN <<>>
                ELSE Val(CacheGetList(c, subdomain))
        matching == SelectSeq(list, LAMBDA x : x.id = id)
        default == IF Len(matching) = 0 THEN None ELSE Some(Head(matching))
    IN  IF IsNone(CacheGetRecord(c, id)) THEN default
        ELSE CacheGetRecord(c, id)

RetrieveEffect(s, id, prov, perr) ==
    LET cache_value == RetrieveCached(cache, s, id)
        found == GetRecord(store, s, id)
        record == Val(found)
        try == TryProvider(prov, perr)
        provider_record == ProviderRetrieve(remote, s, record.provider_id)
        new == UpdatedByProvider(record, Val(provider_record))
        more == [calls |-> IF prov THEN {"retrieve"} ELSE {},
                 perr |-> prov /\ perr]
    IN  IF ~IsNone(cache_value)
        THEN Raises(Done("Retrieve", s, id, prov, "ok", cache_value,
                         [hit |-> TRUE]))
        ELSE IF IsNone(found)
        THEN Raises(Done("Retrieve", s, id, prov, "NotFound", None, <<>>))
        ELSE IF try = "raised"
        THEN Raises(Done("Retrieve", s, id, prov, "ProviderError", None, more))
        ELSE IF try = "done" /\ IsNone(provider_record)
        THEN Effect(Remove(store, record), nextId,
                    CacheDeleteRecord(CacheDeleteList(cache, s), id),
                    remote, remoteNext,
                    Done("Retrieve", s, id, prov, "ok", None,
                         [removed |-> {id}] @@ more))
        ELSE IF try = "done"
        THEN Effect(IF new # record THEN Save(store, new) ELSE store, nextId,
                    CacheSetRecord(cache, new), remote, remoteNext,
                    Done("Retrieve", s, id, prov, "ok", Some(new),
                         [saved |-> IF new # record THEN {id} ELSE {}] @@ more))
        ELSE Effect(store, nextId, CacheSetRecord(cache, record), remote,
                    remoteNext,
                    Done("Retrieve", s, id, prov, "ok", Some(record), more))

RetrieveRecord(s, id, prov, perr) == Apply(RetrieveEffect(s, id, prov, perr))

\* ----------------------------------------------------------- update_record
\* line 142: 'name' in kwargs and not kwargs['name'].endswith(subdomain.name)
UpdateNameValid(kwargs, subdomain) ==
    "name" \in DOMAIN kwargs => EndsWith(kwargs["name"], subdomain.name)

\* lines 148-150: a supplied immutable field that differs from the stored one
ImmutableChangedNever(record, kwargs) == FALSE

ImmutableChanged(record, kwargs) ==
    \E k \in DOMAIN kwargs \cap ImmutableFields : kwargs[k] # record[k]

\* line 151: setattr(record, k, v) for every supplied field
Applied(record, kwargs) ==
    [k \in DOMAIN record |-> IF k \in DOMAIN kwargs THEN kwargs[k] ELSE record[k]]

UpdateEffect(s, id, kwargs0, prov, perr) ==
    LET kwargs == NormalizeTarget(kwargs0)
        found == GetRecord(store, s, id)
        record == Val(found)
        new == Applied(record, kwargs)
        try == TryProvider(prov, perr)
        early == [args |-> Some(kwargs0)]
        more == [args |-> Some(kwargs0), calls |-> IF prov THEN {"update"} ELSE {},
                 sent |-> IF prov THEN Some(kwargs) ELSE None,
                 perr |-> prov /\ perr]
    IN  IF ~UpdateNameValid(kwargs0, s)
        THEN Raises(Done("Update", s, id, prov, "BadRequest", None, early))
        ELSE IF IsNone(found)
        THEN Raises(Done("Update", s, id, prov, "NotFound", None, early))
        ELSE IF ImmutableChanged(record, kwargs)
        THEN Raises(Done("Update", s, id, prov, "BadRequest", None, early))
        ELSE IF try = "raised"
        THEN Raises(Done("Update", s, id, prov, "ProviderError", None, more))
        ELSE IF try = "done" /\ ProviderUpdateFails(s, record.provider_id, kwargs)
        THEN Raises(Done("Update", s, id, prov, "TypeError", None, more))
        ELSE Effect(Save(store, new), nextId,
                    CacheSetRecord(CacheDeleteList(cache, s), new),
                    IF try = "done"
                    THEN ProviderUpdate(remote, s, record.provider_id, kwargs)
                    ELSE remote,
                    remoteNext,
                    Done("Update", s, id, prov, "ok", Some(new),
                         [saved |-> {id}] @@ more))

UpdateRecord(s, id, kwargs, prov, perr) ==
    Apply(UpdateEffect(s, id, kwargs, prov, perr))

\* ----------------------------------------------------------- delete_record
DeleteEffect(s, id, prov, perr) ==
    LET found == GetRecord(store, s, id)
        record == Val(found)
        try == TryProvider(prov, perr)
        more == [calls |-> IF prov THEN {"delete"} ELSE {},
                 perr |-> prov /\ perr]
    IN  IF IsNone(found)
        THEN Raises(Done("Delete", s, id, prov, "NotFound", None, <<>>))
        ELSE IF try = "raised"
        THEN Raises(Done("Delete", s, id, prov, "ProviderError", None, more))
        ELSE Effect(Remove(store, record), nextId,
                    CacheDeleteRecord(CacheDeleteList(cache, s), id),
                    IF try = "done"
                    THEN ProviderDelete(remote, s, record.provider_id)
                    ELSE remote,
                    remoteNext,
                    Done("Delete", s, id, prov, "ok", None,
                         [removed |-> {id}] @@ more))

DeleteRecord(s, id, prov, perr) == Apply(DeleteEffect(s, id, prov, perr))

\* ------------------------------------------------------ synchronize_records
\* Subdomain.objects.all() carries no ordering: any order of the subdomains
SubdomainOrders ==
    {q \in [1..Cardinality(Subdomains) -> Subdomains] :
        \A i, j \in 1..Cardinality(Subdomains) : q[i] = q[j] => i = j}

\* the report of the sync so far, extended by one list_records call
SyncReport(l, step) ==
    [l EXCEPT !.perr = @ \/ step.perr, !.calls = @ \cup step.calls,
              !.saved = @ \cup step.saved, !.removed = @ \cup step.removed,
              !.outcome = step.outcome]

\* one pass of the loop body, line 239: list_records from the state e
SyncStep(e, s, perr) ==
    CHOOSE next \in
        { [step EXCEPT !.last = SyncReport(e.last, step.last)] :
            step \in {ListEffectFrom(e.store, e.nextId, e.cache, e.remote,
                                     e.remoteNext, s, TRUE, perr)} } : TRUE

\* lines 238-239: list_records for each subdomain in turn, from the state the
\* previous call left; an error that leaves list_records ends the loop
RECURSIVE SyncFrom(_, _, _)
SyncFrom(e, order, perr) ==
    IF Len(order) = 0 THEN e
    ELSE CHOOSE end \in
            { IF next.last.outcome # "ok" THEN next
              ELSE SyncFrom(next, Tail(order), perr) :
                next \in {SyncStep(e, Head(order), perr[Head(order)])} } : TRUE

SyncEffect(order, perr) ==
    SyncFrom(Raises([Idle EXCEPT !.op = "Sync", !.prov = TRUE]), order, perr)

SynchronizeRecords(order, perr) == Apply(SyncEffect(order, perr))

\* the caller (a view) has used the result: the request is over
Respond ==
    /\ last # Idle
    /\ last' = Idle
    /\ UNCHANGED <<store, nextId, cache, remote, remoteNext, running>>

\* ------------------------------------------------------- the environment
\* records are added and removed at the provider by someone else
UpstreamInputs ==
    { to_digitalocean_record(Form(<<"a", "b">>, 60, "A", <<"t">>)) }

AddedUpstream(d, fields) ==
    /\ last = Idle
    /\ remoteNext <= MaxRemote
    /\ remote' = remote \cup {[id |-> remoteNext, domain |-> d] @@ fields}
    /\ remoteNext' = remoteNext + 1
    /\ UNCHANGED <<store, nextId, cache, last, running>>

RemovedUpstream(n) ==
    /\ last = Idle
    /\ n \in remote
    /\ remote' = remote \ {n}
    /\ UNCHANGED <<store, nextId, cache, remoteNext, last, running>>

\* a record is renamed at the provider by someone else
UpstreamNames == { <<"c">> }

RenamedUpstream(n, name) ==
    /\ last = Idle
    /\ n \in remote
    /\ n.name # name
    /\ remote' = (remote \ {n}) \cup {[n EXCEPT !.name = name]}
    /\ UNCHANGED <<store, nextId, cache, remoteNext, last, running>>

\* a cache entry reaches its timeout
ListExpires(s) ==
    /\ last = Idle
    /\ ~IsNone(cache.list[s])
    /\ cache' = CacheDeleteList(cache, s)
    /\ UNCHANGED <<store, nextId, remote, remoteNext, last, running>>

RecordExpires(id) ==
    /\ last = Idle
    /\ ~IsNone(cache.rec[id])
    /\ cache' = CacheDeleteRecord(cache, id)
    /\ UNCHANGED <<store, nextId, remote, remoteNext, last, running>>

Next ==
    \/ \E s \in Subdomains, m \in Modes : ListRecords(s, m[1], m[2])
    \/ \E s \in Subdomains, kwargs \in CreateInputs, m \in Modes :
           CreateRecord(s, kwargs, m[1], m[2])
    \/ \E s \in Subdomains, id \in Ids, m \in Modes :
           RetrieveRecord(s, id, m[1], m[2])
    \/ \E s \in Subdomains, id \in Ids, kwargs \in UpdateInputs, m \in Modes :
           UpdateRecord(s, id, kwargs, m[1], m[2])
    \/ \E s \in Subdomains, id \in Ids, m \in Modes :
           DeleteRecord(s, id, m[1], m[2])
    \/ \E order \in SubdomainOrders, perr \in [Subdomains -> BOOLEAN] :
           SynchronizeRecords(order, perr)
    \/ \E s \in Subdomains, zone \in ZoneInputs, prov \in BOOLEAN :
           \E perr \in [1..Len(SplitLines(zone)) -> BOOLEAN] :
               ImportZone(s, zone, prov, perr)
    \/ Respond
    \/ \E s \in Subdomains, fields \in UpstreamInputs :
           AddedUpstream(s.domain, fields)
    \/ \E n \in remote : RemovedUpstream(n)
    \/ \E n \in remote, name \in UpstreamNames : RenamedUpstream(n, name)
    \/ \E s \in Subdomains : ListExpires(s)
    \/ \E id \in Ids : RecordExpires(id)

Spec == Init /\ [][Next]_vars

\* ------------------------------------------------- the codec on its own
\* The static methods of Record and of the provider take no state: each is
\* applied to an input drawn at the start, and a join's output is handed to
\* the matching split.  `last` reports the call: the input drawn, the kind of
\* value the call produced, and the value returned or the exception raised.
Codec(op, input, kind, result) ==
    [op |-> op, input |-> input, kind |-> kind, result |-> result]

Labels == { None, Some(<<"_", "s">>), Some(<<"_", "t">>), Some(<<"s">>) }

DottedNames == { <<"b">>, <<"a", ".", "b">>, <<"a", ".", "b", ".", "c">> }

NameParts ==
    { [service |-> s, protocol |-> p, name |-> n] :
          s \in Labels, p \in Labels, n \in DottedNames }

Numbers == { None, Some(0), Some(10) }

Targets == { <<"t">>, <<"t", ".">>, <<"5">> }

DataParts ==
    { [priority |-> p, weight |-> w, port |-> q, target |-> t] :
          p \in Numbers, w \in {None, Some(60)}, q \in {None, Some(5060)},
          t \in Targets }

\* data texts of 0, 3 and 5 tokens, and one whose priority is no number
DataTexts ==
    { <<>>, <<" ">>, <<"1", " ", "2", " ", "t">>, <<"1", " ", "2", " ", "3", " ", "4", " ", "t">>, <<"x", " ", "t">> }

SrvLine ==
    JoinSpace(<< <<"_", "s", "i", "p", ".", "_", "t", "c", "p", ".", "s", "u", "b", ".", "e", "x", "a", "m", "p", "l", "e", ".", "c", "o", "m">>, <<"3", "6", "0", "0">>, <<"I", "N">>, TypeText.SRV,
                 <<"1", "0">>, <<"6", "0">>, <<"5", "0", "6", "0">>, <<"t", "a", "r", "g", "e", "t", ".", "e", "x", "a", "m", "p", "l", "e", ".", "c", "o", "m", ".">> >>)

\* zone lines: the SRV line, an A line, and lines of 0, 1, 2 and 3 tokens
Lines ==
    { SrvLine, <<"b", " ", "6", "0", " ", "I", "N", " ", "A", " ", "t">>, <<>>, <<"b">>, <<"b", " ", "6", "0">>, <<"b", " ", "6", "0", " ", "I", "N">> }

CanonicalRecords ==
    { [provider_id |-> Some(<<"7">>)] @@ Form(<<"b">>, 60, "A", <<"t">>),
      [provider_id |-> None] @@ Form(<<"b">>, 60, "A", <<"t">>),
      [provider_id |-> Some(<<"7">>), service |-> Some(<<"s">>),
       protocol |-> Some(<<"_", "t">>), priority |-> Some(10),
       weight |-> Some(60), port |-> Some(5060)]
          @@ Form(<<"a", ".", "b">>, 60, "SRV", <<"t", ".">>) }

\* the report of an input drawn and not yet passed to anything
Drawn(kind, x) == Codec("input", [kind |-> kind, v |-> x], kind, Returned(x))

CodecInit ==
    /\ store = {}
    /\ nextId = 1
    /\ cache = [list |-> [s \in Subdomains |-> None], rec |-> [i \in Ids |-> None]]
    /\ remote = {}
    /\ remoteNext = 1
    /\ \/ \E x \in NameParts : last = Drawn("name_parts", x)
       \/ \E x \in DataParts : last = Drawn("data_parts", x)
       \/ \E x \in DataTexts : last = Drawn("data", x)
       \/ \E x \in Lines : last = Drawn("line", x)
       \/ \E x \in CanonicalRecords : last = Drawn("record", x)
    /\ running = [p \in Procs |-> Call("none")]

Called(op, kind, result) ==
    /\ last' = Codec(op, last.input, kind, result)
    /\ UNCHANGED <<store, nextId, cache, remote, remoteNext, running>>

JoinName ==
    /\ last.op = "input" /\ last.kind = "name_parts"
    /\ LET v == Val(last.result.val)
       IN  Called("join_name", "full_name",
                  Returned(join_name(v.service, v.protocol, v.name)))

SplitName ==
    /\ last.op = "join_name"
    /\ Called("split_name", "name_parts",
              Returned(split_name(Val(last.result.val))))

JoinData ==
    /\ last.op = "input" /\ last.kind = "data_parts"
    /\ LET v == Val(last.result.val)
       IN  Called("join_data", "data",
                  Returned(join_data(v.priority, v.weight, v.port, v.target)))

SplitData ==
    /\ last.op \in {"input", "join_data"} /\ last.kind = "data"
    /\ Called("split_data", "data_parts", split_data(Val(last.result.val)))

ParseRecord ==
    /\ last.op = "input" /\ last.kind = "line"
    /\ Called("parse_record", "record", parse_record(Val(last.result.val)))

ToDigitalOcean ==
    /\ last.op = "input" /\ last.kind = "record"
    /\ Called("to_digitalocean_record", "native",
              Returned(to_digitalocean_record(Val(last.result.val))))

FromDigitalOcean ==
    /\ last.op = "to_digitalocean_record"
    /\ Called("from_digitalocean_record", "record",
              Returned(from_digitalocean_record(Val(last.result.val))))

CodecNext ==
    \/ JoinName
    \/ SplitName
    \/ JoinData
    \/ SplitData
    \/ ParseRecord
    \/ ToDigitalOcean
    \/ FromDigitalOcean

CodecSpec == CodecInit /\ [][CodecNext]_vars


\* ------------------------------------------- list_records, side by side
\* Two requests run list_records for one subdomain at the same time (one
\* worker each).  Every statement that reads or writes the table, the cache
\* or the provider is a step of its own; the provider answers every call and
\* its records do not change.
UpstreamRecords ==
    { [id |-> 1, domain |-> "d1"]
          @@ to_digitalocean_record(Form(<<"b">>, 60, "A", <<"t">>)),
      [id |-> 2, domain |-> "d1"]
          @@ to_digitalocean_record(Form(<<"a", "b">>, 60, "A", <<"t">>)) }

SubB == [name |-> <<"b">>, domain |-> "d1"]

SubAB == [name |-> <<"a", "b">>, domain |-> "d1"]

\* the table when the calls start: empty, a row whose fields are behind the
\* provider's, a row made without a provider, a row whose record is gone at
\* the provider, a row of the other subdomain
InitialTables ==
    { {},
      {NewRecord(1, Some(<<"1">>), SubB, Form(<<"b">>, 30, "A", <<"t">>))},
      {NewRecord(1, None, SubB, Form(<<"b">>, 60, "A", <<"t">>))},
      {NewRecord(1, Some(<<"3">>), SubB, Form(<<"b">>, 60, "A", <<"t">>))},
      {NewRecord(1, Some(<<"2">>), SubAB, Form(<<"a", "b">>, 60, "A", <<"t">>))} }

ListIds == 1..(MaxId + Cardinality(UpstreamRecords))

ListInit ==
    /\ remote \in SUBSET UpstreamRecords
    /\ remoteNext = 4
    /\ store \in InitialTables
    /\ nextId = Cardinality(store) + 1
    /\ cache = [list |-> [s \in Subdomains |-> None],
                rec |-> [i \in ListIds |-> None]]
    /\ last = Idle
    /\ \E s \in Subdomains :
           running = [p \in Procs |-> [Call("start") EXCEPT !.sub = Some(s)]]

\* objects.get(provider_id=provider_id) of update_or_create, None for
\* DoesNotExist
GetByProviderIdMisses(st, provider_id) == None

GetByProviderId(st, provider_id) ==
    LET found == {r \in st : r.provider_id = provider_id}
    IN  IF found = {} THEN None ELSE Some(CHOOSE r \in found : TRUE)

\* the call p moves on as `to`
Moves(p, to) == running' = [running EXCEPT ![p] = to]

\* an exception that list_records does not catch ends the call
Fails(p, exc) ==
    Moves(p, [running[p] EXCEPT !.pc = "done", !.outcome = exc])

\* lines 63-66
ListGet(p) ==
    LET me == running[p]
        cache_value == CacheGetList(cache, Val(me.sub))
    IN  /\ me.pc = "start"
        /\ IF ~IsNone(cache_value)
           THEN Moves(p, [me EXCEPT !.pc = "done",
                                    !.records = Val(cache_value)])
           ELSE Moves(p, [me EXCEPT !.pc = "fetch"])
        /\ UNCHANGED <<store, nextId, cache, remote, remoteNext, last>>

\* line 69
ListFetch(p) ==
    LET me == running[p]
    IN  /\ me.pc = "fetch"
        /\ Moves(p, [me EXCEPT !.pc = "scan",
                       !.provider_records = ProviderList(remote, Val(me.sub))])
        /\ UNCHANGED <<store, nextId, cache, remote, remoteNext, last>>

\* lines 70-72: the rows of the subdomain are read, those the provider does
\* not list are to be deleted
ListScan(p) ==
    LET me == running[p]
        gone == store \ ListDeletes(store, Val(me.sub),
                                    ProviderIds(me.provider_records))
    IN  /\ me.pc = "scan"
        /\ Moves(p, [me EXCEPT !.pc = "delete", !.stale = gone])
        /\ UNCHANGED <<store, nextId, cache, remote, remoteNext, last>>

\* line 73: record.delete()
ListDelete(p) ==
    LET me == running[p]
    IN  /\ me.pc = "delete"
        /\ \E r \in me.stale :
               /\ store' = Remove(store, r)
               /\ Moves(p, [me EXCEPT !.stale = @ \ {r}])
        /\ UNCHANGED <<nextId, cache, remote, remoteNext, last>>

\* lines 74-75
ListDict(p) ==
    LET me == running[p]
    IN  /\ me.pc = "delete"
        /\ me.stale = {}
        /\ Moves(p, [me EXCEPT !.pc = "loop", !.i = 1,
                       !.record_dict = FilterBySubdomain(store, Val(me.sub))])
        /\ UNCHANGED <<store, nextId, cache, remote, remoteNext, last>>

\* the rows of record_dict under the provider id of the i-th provider record
Known(me) ==
    {d \in me.record_dict :
         d.provider_id = me.provider_records[me.i].provider_id}

\* lines 78-80: update_by_provider_record on the row of record_dict
ListUpdate(p) ==
    LET me == running[p]
        d == CHOOSE x \in Known(me) : TRUE
        new == UpdatedByProvider(d, me.provider_records[me.i])
    IN  /\ me.pc = "loop"
        /\ me.i <= Len(me.provider_records)
        /\ Known(me) # {}
        /\ IF new = d
           THEN Moves(p, [me EXCEPT !.i = @ + 1]) /\ UNCHANGED store
           ELSE IF UniqueOk(store, new)
           THEN Moves(p, [me EXCEPT !.i = @ + 1]) /\ store' = Save(store, new)
           ELSE Fails(p, "IntegrityError") /\ UNCHANGED store
        /\ UNCHANGED <<nextId, cache, remote, remoteNext, last>>

\* line 85, update_or_create: the lookup by provider_id
ListUpsertGet(p) ==
    LET me == running[p]
        found == GetByProviderId(store,
                                 me.provider_records[me.i].provider_id)
    IN  /\ me.pc = "loop"
        /\ me.i <= Len(me.provider_records)
        /\ Known(me) = {}
        /\ Moves(p, [me EXCEPT !.obj = found,
                       !.pc = IF IsNone(found) THEN "create" ELSE "save"])
        /\ UNCHANGED <<store, nextId, cache, remote, remoteNext, last>>

\* line 85, update_or_create: the insert after DoesNotExist; the unique
\* constraint answers a second insert with IntegrityError
ListUpsertCreate(p) ==
    LET me == running[p]
        provider_record == me.provider_records[me.i]
        new == NewRecord(nextId, provider_record.provider_id, Val(me.sub),
                         provider_record)
    IN  /\ me.pc = "create"
        /\ IF UniqueOk(store, new)
           THEN /\ store' = Save(store, new)
                /\ nextId' = nextId + 1
                /\ Moves(p, [me EXCEPT !.pc = "loop", !.i = @ + 1])
           ELSE /\ Moves(p, [me EXCEPT !.pc = "reget", !.raced = TRUE])
                /\ UNCHANGED <<store, nextId>>
        /\ UNCHANGED <<cache, remote, remoteNext, last>>

\* line 85, update_or_create: the lookup again after IntegrityError
ListUpsertReget(p) ==
    LET me == running[p]
        found == GetByProviderId(store,
                                 me.provider_records[me.i].provider_id)
    IN  /\ me.pc = "reget"
        /\ IF IsNone(found) THEN Fails(p, "IntegrityError")
           ELSE Moves(p, [me EXCEPT !.obj = found, !.pc = "save"])
        /\ UNCHANGED <<store, nextId, cache, remote, remoteNext, last>>

\* line 85, update_or_create: the defaults are set on the row found and it
\* is saved
ListUpsertSave(p) ==
    LET me == running[p]
        s == Val(me.sub)
        defaults ==
            [subdomain_name |-> s.name, domain |-> s.domain]
                @@ me.provider_records[me.i]
        new == UpdatedByProvider(Val(me.obj), defaults)
    IN  /\ me.pc = "save"
        /\ IF UniqueOk(store, new)
           THEN /\ store' = Save(store, new)
                /\ Moves(p, [me EXCEPT !.pc = "loop", !.i = @ + 1,
                                       !.obj = None])
           ELSE Fails(p, "IntegrityError") /\ UNCHANGED store
        /\ UNCHANGED <<nextId, cache, remote, remoteNext, last>>

\* lines 88-89: the query of `records` runs when cache.set pickles it
ListQuery(p) ==
    LET me == running[p]
    IN  /\ me.pc = "loop"
        /\ me.i > Len(me.provider_records)
        /\ Moves(p, [me EXCEPT !.pc = "cache_list",
                       !.records = OrderRecords(
                                       FilterBySubdomain(store, Val(me.sub)))])
        /\ UNCHANGED <<store, nextId, cache, remote, remoteNext, last>>

\* line 89
ListCacheSet(p) ==
    LET me == running[p]
    IN  /\ me.pc = "cache_list"
        /\ cache' = CacheSetList(cache, Val(me.sub), me.records)
        /\ Moves(p, [me EXCEPT !.pc = "cache_record", !.j = 1])
        /\ UNCHANGED <<store, nextId, remote, remoteNext, last>>

\* lines 90-91
ListCacheRecord(p) ==
    LET me == running[p]
    IN  /\ me.pc = "cache_record"
        /\ me.j <= Len(me.records)
        /\ cache' = CacheSetRecord(cache, me.records[me.j])
        /\ Moves(p, [me EXCEPT !.j = @ + 1])
        /\ UNCHANGED <<store, nextId, remote, remoteNext, last>>

\* line 92
ListReturn(p) ==
    LET me == running[p]
    IN  /\ me.pc = "cache_record"
        /\ me.j > Len(me.records)
        /\ Moves(p, [me EXCEPT !.pc = "done"])
        /\ UNCHANGED <<store, nextId, cache, remote, remoteNext, last>>

ListNext ==
    \/ \E p \in Procs : ListGet(p)
    \/ \E p \in Procs : ListFetch(p)
    \/ \E p \in Procs : ListScan(p)
    \/ \E p \in Procs : ListDelete(p)
    \/ \E p \in Procs : ListDict(p)
    \/ \E p \in Procs : ListUpdate(p)
    \/ \E p \in Procs : ListUpsertGet(p)
    \/ \E p \in Procs : ListUpsertCreate(p)
    \/ \E p \in Procs : ListUpsertReget(p)
    \/ \E p \in Procs : ListUpsertSave(p)
    \/ \E p \in Procs : ListQuery(p)
    \/ \E p \in Procs : ListCacheSet(p)
    \/ \E p \in Procs : ListCacheRecord(p)
    \/ \E p \in Procs : ListReturn(p)

ListSpec == ListInit /\ [][ListNext]_vars


\* ------------------------------------------- list_records of a full table
\* list_records run once the table holds several rows: rows made without a
\* provider, two of them with the same type and name, one with another name,
\* one of another type, and one of the other subdomain.
StoredPool ==
    { NewRecord(1, None, SubB, Form(<<"b">>, 60, "A", <<"t">>)),
      NewRecord(2, None, SubB, Form(<<"b">>, 60, "A", <<"t">>)),
      NewRecord(3, None, SubB, Form(<<"a", "b">>, 60, "A", <<"t">>)),
      NewRecord(4, None, SubB, Form(<<"a", "b">>, 60, "NS", <<"t", ".">>)),
      NewRecord(5, None, SubAB, Form(<<"a", "b">>, 60, "A", <<"t">>)) }

TableInit ==
    /\ store \in SUBSET StoredPool
    /\ nextId = Cardinality(StoredPool) + 1
    /\ cache = [list |-> [s \in Subdomains |-> None],
                rec |-> [i \in 1..Cardinality(StoredPool) |-> None]]
    /\ remote = {}
    /\ remoteNext = 1
    /\ last = Idle
    /\ running = [p \in Procs |-> Call("none")]

\* list_records, lines 60-92
ListStored(s, prov, perr) ==
    /\ last = Idle
    /\ \E e \in {ListEffectFrom(store, nextId, cache, remote, remoteNext,
                                s, prov, perr)} :
           /\ store' = e.store
           /\ nextId' = e.nextId
           /\ cache' = e.cache
           /\ remote' = e.remote
           /\ remoteNext' = e.remoteNext
           /\ last' = e.last
    /\ UNCHANGED running

TableNext ==
    \/ \E s \in Subdomains, m \in Modes : ListStored(s, m[1], m[2])
    \/ Respond
    \/ \E s \in Subdomains : ListExpires(s)

TableSpec == TableInit /\ [][TableNext]_vars


\* ------------------------------------- a mutation beside list_records
\* One request runs list_records while another runs create_record,
\* update_record or delete_record for the same subdomain, with a provider
\* that answers every call.  Call 1 is the list, call 2 the mutation; every
\* statement that reads or writes the table, the cache or the provider is a
\* step of its own.
Lister == 1

Mutator == 2

\* the table and the provider's records when the two calls start: nothing,
\* or one record stored and known to the provider
RaceStarts ==
    { [store |-> {}, remote |-> {}],
      [store |-> {NewRecord(1, Some(<<"1">>), SubB,
                            Form(<<"b">>, 60, "A", <<"t">>))},
       remote |-> {[id |-> 1, domain |-> "d1"]
                       @@ to_digitalocean_record(
                              Form(<<"b">>, 60, "A", <<"t">>))}] }

\* the mutation requested: its operation, the id and the fields passed
RaceMutations ==
    { [op |-> "Create", id |-> 0,
       kwargs |-> Some(Form(<<"b">>, 60, "A", <<"t">>))],
      [op |-> "Update", id |-> 1,
       kwargs |-> Some([ttl |-> 300, target |-> <<"t">>])],
      [op |-> "Delete", id |-> 1, kwargs |-> None] }

RaceInit ==
    /\ \E start \in RaceStarts :
           /\ store = start.store
           /\ remote = start.remote
           /\ nextId = Cardinality(start.store) + 1
           /\ remoteNext = Cardinality(start.remote) + 1
    /\ cache = [list |-> [s \in Subdomains |-> None],
                rec |-> [i \in ListIds |-> None]]
    /\ last = Idle
    /\ \E m \in RaceMutations :
           running =
               [p \in Procs |->
                   IF p = Lister
                   THEN [op |-> "List", id |-> 0, kwargs |-> None]
                            @@ [Call("start") EXCEPT !.sub = Some(SubB)]
                   ELSE m @@ [Call("begin") EXCEPT !.sub = Some(SubB)]]

\* create_record, lines 96-103: the checks, then provider.create_record
CreateSend(p) ==
    LET me == running[p]
        kwargs == NormalizeTarget(Val(me.kwargs))
        native == ProviderCreated(remoteNext, Val(me.sub), kwargs)
        provider_record == from_digitalocean_record(native)
        record == NewRecord(0, CreatedProviderId("done", provider_record),
                            Val(me.sub), kwargs)
    IN  /\ me.pc = "begin"
        /\ me.op = "Create"
        /\ IF ~CreateNameValid(Val(me.kwargs), Val(me.sub))
           THEN Fails(p, "BadRequest") /\ UNCHANGED <<remote, remoteNext>>
           ELSE /\ remote' = remote \cup {native}
                /\ remoteNext' = remoteNext + 1
                /\ Moves(p, [me EXCEPT !.pc = "persist", !.obj = Some(record)])
        /\ UNCHANGED <<store, nextId, cache, last>>

\* update_record 142-151 and delete_record 167: the checks and
\* objects.get(subdomain_name=subdomain.name, pk=id)
MutationGet(p) ==
    LET me == running[p]
        found == GetRecord(store, Val(me.sub), me.id)
        kwargs == NormalizeTarget(Val(me.kwargs))
    IN  /\ me.pc = "begin"
        /\ me.op \in {"Update", "Delete"}
        /\ IF me.op = "Update" /\ ~UpdateNameValid(Val(me.kwargs), Val(me.sub))
           THEN Fails(p, "BadRequest")
           ELSE IF IsNone(found) THEN Fails(p, "NotFound")
           ELSE IF me.op = "Delete"
           THEN Moves(p, [me EXCEPT !.pc = "provider", !.obj = found])
           ELSE IF ImmutableChanged(Val(found), kwargs)
           THEN Fails(p, "BadRequest")
           ELSE Moves(p, [me EXCEPT !.pc = "provider",
                            !.obj = Some(Applied(Val(found), kwargs))])
        /\ UNCHANGED <<store, nextId, cache, remote, remoteNext, last>>

\* update_record 154 and delete_record 170: the provider's call
MutationSend(p) ==
    LET me == running[p]
        record == Val(me.obj)
        kwargs == NormalizeTarget(Val(me.kwargs))
    IN  /\ me.pc = "provider"
        /\ IF me.op = "Delete"
           THEN /\ remote' = ProviderDelete(remote, Val(me.sub),
                                            record.provider_id)
                /\ Moves(p, [me EXCEPT !.pc = "persist"])
           ELSE IF ProviderUpdateFails(Val(me.sub), record.provider_id, kwargs)
           THEN Fails(p, "TypeError") /\ UNCHANGED remote
           ELSE /\ remote' = ProviderUpdate(remote, Val(me.sub),
                                            record.provider_id, kwargs)
                /\ Moves(p, [me EXCEPT !.pc = "persist"])
        /\ UNCHANGED <<store, nextId, cache, remoteNext, last>>

\* record.save() of create_record 106 and update_record 157, record.delete()
\* of delete_record 173
MutationPersist(p) ==
    LET me == running[p]
        record == Val(me.obj)
        created == [record EXCEPT !.id = nextId]
    IN  /\ me.pc = "persist"
        /\ IF me.op = "Delete"
           THEN /\ store' = Remove(store, record)
                /\ Moves(p, [me EXCEPT !.pc = "uncache"])
                /\ UNCHANGED nextId
           ELSE IF me.op = "Create"
           THEN IF UniqueOk(store, created)
                THEN /\ store' = Save(store, created)
                     /\ nextId' = nextId + 1
                     /\ Moves(p, [me EXCEPT !.pc = "uncache",
                                            !.obj = Some(created)])
                ELSE Fails(p, "IntegrityError") /\ UNCHANGED <<store, nextId>>
           ELSE IF UniqueOk(store, record)
           THEN /\ store' = Save(store, record)
                /\ Moves(p, [me EXCEPT !.pc = "uncache"])
                /\ UNCHANGED nextId
           ELSE Fails(p, "IntegrityError") /\ UNCHANGED <<store, nextId>>
        /\ UNCHANGED <<cache, remote, remoteNext, last>>

\* cache.delete('records:' + str(subdomain)), lines 108, 158, 174
MutationUncache(p) ==
    LET me == running[p]
    IN  /\ me.pc = "uncache"
        /\ cache' = CacheDeleteList(cache, Val(me.sub))
        /\ Moves(p, [me EXCEPT !.pc = "recache"])
        /\ UNCHANGED <<store, nextId, remote, remoteNext, last>>

\* lines 109 and 159: cache.set('records:' + str(record.id), ...); line 175:
\* cache.delete('records:' + str(id))
MutationRecache(p) ==
    LET me == running[p]
    IN  /\ me.pc = "recache"
        /\ cache' = IF me.op = "Delete" THEN CacheDeleteRecord(cache, me.id)
                    ELSE CacheSetRecord(cache, Val(me.obj))
        /\ Moves(p, [me EXCEPT !.pc = "done"])
        /\ UNCHANGED <<store, nextId, remote, remoteNext, last>>

RaceNext ==
    \/ ListGet(Lister)
    \/ ListFetch(Lister)
    \/ ListScan(Lister)
    \/ ListDelete(Lister)
    \/ ListDict(Lister)
    \/ ListUpdate(Lister)
    \/ ListUpsertGet(Lister)
    \/ ListUpsertCreate(Lister)
    \/ ListUpsertReget(Lister)
    \/ ListUpsertSave(Lister)
    \/ ListQuery(Lister)
    \/ ListCacheSet(Lister)
    \/ ListCacheRecord(Lister)
    \/ ListReturn(Lister)
    \/ CreateSend(Mutator)
    \/ MutationGet(Mutator)
    \/ MutationSend(Mutator)
    \/ MutationPersist(Mutator)
    \/ MutationUncache(Mutator)
    \/ MutationRecache(Mutator)

RaceSpec == RaceInit /\ [][RaceNext]_vars


\* ===================================================================== claims
Ops == {"List", "Create", "Retrieve", "Update", "Delete"}

LastSub == Val(last.sub)

\* the rows of a subdomain, read from the table itself
RowsOf(st, s) == {r \in st : r.subdomain_name = s.name}

\* seq lists exactly the rows S by type, then name, then id descending
InListOrder(seq, S) ==
    /\ Len(seq) = Cardinality(S)
    /\ {seq[i] : i \in 1..Len(seq)} = S
    /\ \A i, j \in 1..Len(seq) : i < j => RecordBefore(seq[i], seq[j])

CacheHolds(entry, value, timeout) ==
    entry = Some([value |-> value, timeout |-> timeout])

\* C1: an operation whose provider call raised ProviderError still ends
\* normally, with the result computed from the local table: List the ordered
\* rows, Create a stored row without provider id, Retrieve and Update the
\* stored row, Delete nothing and the row gone.
C1_ProviderErrorAbsorbed ==
    (last.op \in Ops /\ last.perr) =>
        /\ last.outcome = "ok"
        /\ last.op = "List" =>
               InListOrder(last.result, RowsOf(store, LastSub))
        /\ last.op = "Create" =>
               /\ Len(last.result) = 1
               /\ Val(last.result) \in RowsOf(store, LastSub)
               /\ IsNone(Val(last.result).provider_id)
        /\ last.op \in {"Retrieve", "Update"} =>
               /\ Len(last.result) = 1
               /\ Val(last.result) \in RowsOf(store, LastSub)
               /\ Val(last.result).id = last.id
        /\ last.op = "Delete" =>
               /\ IsNone(last.result)
               /\ \A r \in store : r.id # last.id

C1_Witness ==
    /\ last.op = "Delete"
    /\ last.perr
    /\ last.calls = {"delete"}
    /\ last.removed = {last.id}

\* the provider ids the provider returns for a subdomain
ListedIds(s) == ProviderIds(ProviderList(remote, s))

ListReconciled ==
    /\ last.op = "List"
    /\ ~last.hit
    /\ last.prov
    /\ ~last.perr
    /\ last.outcome = "ok"

\* C2: after a List that missed the cache and reached the provider, every
\* row of the subdomain carries a provider id the provider listed; with an
\* empty listing the subdomain has no row left.
C2_OnlyListedRowsRemain ==
    ListReconciled =>
        \A r \in RowsOf(store, LastSub) : r.provider_id \in ListedIds(LastSub)

C2_Witness ==
    /\ ListReconciled
    /\ last.removed # {}
    /\ ListedIds(LastSub) = {}
    /\ RowsOf(store, LastSub) = {}


ListedRecords(s) ==
    LET prs == ProviderList(remote, s) IN {prs[i] : i \in 1..Len(prs)}

\* C3: a List that misses the cache and reaches the provider leaves, for
\* every record the provider returned, exactly one row with that provider
\* id, tagged with the subdomain's name and domain and equal to the
\* provider's record field by field; a row that already carried the id keeps
\* its local id, and is saved only if the List changed it.
C3_ListMirrorsProvider ==
    [][\A s \in Subdomains :
          (ListRecords(s, TRUE, FALSE) /\ IsNone(cache.list[s])) =>
              /\ \A pr \in ListedRecords(s) :
                    LET rows == {r \in store' : r.provider_id = pr.provider_id}
                    IN  /\ Cardinality(rows) = 1
                        /\ \A r \in rows :
                              /\ r.subdomain_name = s.name
                              /\ r.domain = s.domain
                              /\ \A k \in DOMAIN pr : r[k] = pr[k]
              /\ \A old \in store :
                    old.provider_id \in ListedIds(s) =>
                        \E r \in store' :
                            /\ r.id = old.id
                            /\ r.provider_id = old.provider_id
                            /\ old.id \in last'.saved => r # old
       ]_vars

C3_Witness ==
    /\ ListReconciled
    /\ last.saved # {}
    /\ Len(last.result) > 0
    /\ \E r \in store : r.provider_id \in ListedIds(LastSub) /\ r.ttl = 300

\* C4: when List misses the cache and the provider raises, the table is left
\* as it was, List returns the rows of the subdomain in List order, and the
\* list key and every returned record's key hold them.
C4_ListFallsBackToLocal ==
    [][\A s \in Subdomains :
          (ListRecords(s, TRUE, TRUE) /\ IsNone(cache.list[s])) =>
              /\ store' = store
              /\ nextId' = nextId
              /\ last'.outcome = "ok"
              /\ InListOrder(last'.result, RowsOf(store, s))
              /\ CacheHolds(cache'.list[s], last'.result, 3600)
              /\ \A r \in RowsOf(store, s) :
                    CacheHolds(cache'.rec[r.id], r, r.ttl)
       ]_vars

C4_Witness ==
    /\ last.op = "List"
    /\ last.perr
    /\ ~last.hit
    /\ Len(last.result) > 0
    /\ remote # {}

\* C5: when the list key of the subdomain is cached, List returns the cached
\* snapshot, calls no provider, and changes neither the table, the backend
\* nor any cache entry.
C5_ListCacheHit ==
    [][\A s \in Subdomains, m \in Modes :
          (ListRecords(s, m[1], m[2]) /\ ~IsNone(cache.list[s])) =>
              /\ last'.outcome = "ok"
              /\ last'.result = Val(cache.list[s]).value
              /\ last'.calls = {}
              /\ UNCHANGED <<store, nextId, cache, remote, remoteNext>>
       ]_vars

C5_Witness ==
    /\ last.op = "List"
    /\ last.hit
    /\ last.prov
    /\ last.result # OrderRecords(RowsOf(store, LastSub))

\* C6: a List that follows a List of the same subdomain, with nothing in
\* between, returns the same records in the same order, whether its provider
\* is absent, answers or raises.
C6_ListTwice ==
    (last.op = "List" /\ last.outcome = "ok") =>
        \A m \in Modes :
            LET second == ListEffect(LastSub, m[1], m[2]).last
            IN  second.outcome = "ok" /\ second.result = last.result

C6_Witness ==
    /\ last.op = "List"
    /\ ~last.hit
    /\ last.perr
    /\ last.result # OrderRecords(RowsOf(
           Reconcile(ProviderList(remote, LastSub), {},
                     [store |-> {}, nextId |-> 1, saved |-> {}],
                     LastSub).store, LastSub))


\* C7: Create with a name that does not end with the subdomain's name raises
\* BadRequestError; nothing is saved, the provider is not called and the
\* cache is left as it was.
C7_CreateRejectsForeignName ==
    [][\A s \in Subdomains, kwargs \in CreateInputs, m \in Modes :
          (CreateRecord(s, kwargs, m[1], m[2]) /\ ~EndsWith(kwargs.name, s.name)) =>
              /\ last'.outcome = "BadRequest"
              /\ last'.calls = {}
              /\ last'.saved = {}
              /\ UNCHANGED <<store, nextId, cache, remote, remoteNext>>
       ]_vars

C7_Witness ==
    /\ last.op = "Create"
    /\ last.outcome = "BadRequest"
    /\ last.prov
    /\ ~EndsWith(Val(last.args).name, LastSub.name)

\* the target Create is to store for the fields a caller passed
DottedTarget(kwargs) ==
    IF /\ kwargs.type \in {"NS", "CNAME", "MX", "SRV"}
       /\ (Len(kwargs.target) = 0 \/ kwargs.target[Len(kwargs.target)] # ".")
    THEN kwargs.target \o <<".">>
    ELSE kwargs.target

\* C8: a successful Create stores, and sends to the provider, the target
\* with one dot appended when the type is NS, CNAME, MX or SRV and the target
\* lacks the trailing dot, and the target as passed otherwise.
C8_CreateAppendsDot ==
    (last.op = "Create" /\ last.outcome = "ok") =>
        /\ \E r \in store :
              /\ r.id = last.id
              /\ r.target = DottedTarget(Val(last.args))
              /\ last.result = Some(r)
        /\ last.prov => Val(last.sent).target = DottedTarget(Val(last.args))

C8_Witness ==
    /\ last.op = "Create"
    /\ last.outcome = "ok"
    /\ last.prov
    /\ Val(last.args).type = "NS"
    /\ Val(last.args).target = <<"t">>
    /\ Val(last.result).target = <<"t", ".">>

\* C9: a Create that passes the name check saves exactly one new row; when
\* the provider answered, the row carries the provider id of the record the
\* provider created, and when the provider raised, the row is saved with no
\* provider id.
C9_CreatePersistsOneRow ==
    [][\A s \in Subdomains, kwargs \in CreateInputs, m \in Modes :
          (CreateRecord(s, kwargs, m[1], m[2]) /\ EndsWith(kwargs.name, s.name)) =>
              /\ last'.outcome = "ok"
              /\ \E r \in store' :
                    /\ store' = store \cup {r}
                    /\ \A o \in store : o.id # r.id
                    /\ r.subdomain_name = s.name
                    /\ m = <<TRUE, FALSE>> =>
                          /\ \E n \in remote' \ remote :
                                r.provider_id = Some(ToStr(n.id))
                    /\ m = <<TRUE, TRUE>> =>
                          IsNone(r.provider_id) /\ remote' = remote
       ]_vars

C9_Witness ==
    /\ last.op = "Create"
    /\ last.outcome = "ok"
    /\ last.prov
    /\ ~last.perr
    /\ \E r \in store, n \in remote :
          r.id = last.id /\ r.provider_id = Some(ToStr(n.id))

\* C10: Retrieve, Update and Delete of an id that has no row under the given
\* subdomain raise NotFoundError, whatever the cache holds, without calling
\* the provider and without changing the table or the cache.  (Update is
\* taken with fields that pass its name check.)
C10_MissingRowIsNotFound ==
    [][\A s \in Subdomains, id \in Ids, m \in Modes :
          (\A r \in store : ~(r.subdomain_name = s.name /\ r.id = id)) =>
              /\ \/ RetrieveRecord(s, id, m[1], m[2])
                 \/ DeleteRecord(s, id, m[1], m[2])
                 \/ \E kwargs \in UpdateInputs :
                       /\ UpdateRecord(s, id, kwargs, m[1], m[2])
                       /\ "name" \in DOMAIN kwargs =>
                              EndsWith(kwargs.name, s.name)
                 => /\ last'.outcome = "NotFound"
                    /\ last'.calls = {}
                    /\ UNCHANGED <<store, nextId, cache, remote, remoteNext>>
       ]_vars


\* Retrieve of id under s finds nothing in the cache: no records:<id> entry
\* and no record of that id in a cached list of s
RetrieveMisses(s, id) ==
    /\ cache.rec[id] = None
    /\ \/ cache.list[s] = None
       \/ \A i \in 1..Len(Val(cache.list[s]).value) :
              Val(cache.list[s]).value[i].id # id

\* the backend holds the record of provider id pid in the domain of s
Upstream(s, pid) ==
    {n \in remote : n.domain = s.domain /\ pid = Some(ToStr(n.id))}

C12_RetrieveRefreshesFromProvider ==
    [][\A s \in Subdomains, id \in Ids, r \in store :
          (/\ RetrieveMisses(s, id)
           /\ r.id = id /\ r.subdomain_name = s.name) =>
              /\ \A n \in Upstream(s, r.provider_id) :
                    RetrieveRecord(s, id, TRUE, FALSE) =>
                        LET p == from_digitalocean_record(n)
                        IN  \E r2 \in store' :
                              /\ \A k \in DOMAIN p : r2[k] = p[k]
                              /\ r2.id = id
                              /\ r2.subdomain_name = r.subdomain_name
                              /\ r2.domain = r.domain
                              /\ store' = (store \ {r}) \cup {r2}
                              /\ last'.saved = IF r2 = r THEN {} ELSE {id}
                              /\ last'.outcome = "ok"
                              /\ last'.result = Some(r2)
                              /\ cache'.rec[id] =
                                    Some([value |-> r2, timeout |-> r2.ttl])
              /\ RetrieveRecord(s, id, TRUE, TRUE) =>
                    /\ store' = store
                    /\ last'.saved = {}
                    /\ last'.outcome = "ok"
                    /\ last'.result = Some(r)
                    /\ cache'.rec[id] = Some([value |-> r, timeout |-> r.ttl])
       ]_vars

C12_Witness ==
    /\ last.op = "Retrieve"
    /\ last.outcome = "ok"
    /\ last.prov /\ ~last.perr /\ ~last.hit
    /\ last.saved = {last.id}
    /\ \E r \in store : \E n \in Upstream(LastSub, r.provider_id) :
          /\ r.id = last.id
          /\ last.result = Some(r)
          /\ r.ttl = n.ttl


\* the immutable fields a caller supplied with a value other than the row's
Offending(r, kwargs) ==
    {k \in {"name", "type", "service", "protocol"} \cap DOMAIN kwargs :
        kwargs[k] # r[k]}

C14_LocalEffectDespiteProviderError ==
    [][\A s \in Subdomains, id \in Ids, r \in store :
          (r.id = id /\ r.subdomain_name = s.name) =>
              /\ \A kwargs \in UpdateInputs :
                    (/\ UpdateRecord(s, id, kwargs, TRUE, TRUE)
                     /\ Offending(r, kwargs) = {}) =>
                        /\ last'.outcome = "ok"
                        /\ \E r2 \in store' :
                              /\ store' = (store \ {r}) \cup {r2}
                              /\ r2.id = id
                              /\ \A k \in DOMAIN kwargs \ {"target"} :
                                    r2[k] = kwargs[k]
                              /\ "target" \in DOMAIN kwargs =>
                                    r2.target \in {kwargs.target,
                                                   kwargs.target \o <<".">>}
                              /\ \A k \in DOMAIN r \ DOMAIN kwargs :
                                    r2[k] = r[k]
              /\ DeleteRecord(s, id, TRUE, TRUE) =>
                    /\ last'.outcome = "ok"
                    /\ store' = store \ {r}
       ]_vars

C14_Witness ==
    /\ last.op = "Update"
    /\ last.outcome = "ok"
    /\ last.prov /\ last.perr
    /\ \E r \in store :
          /\ r.id = last.id
          /\ r.ttl = Val(last.args).ttl
          /\ last.result = Some(r)
    /\ \A n \in remote : n.ttl # Val(last.args).ttl


\* C15: after a successful Delete of id under s the row is gone and neither
\* records:<s> nor records:<id> is cached, so a Retrieve of id that follows
\* raises NotFoundError and a List of s that follows returns no record of
\* that id, with or without a provider.
C15_DeleteThenGone ==
    (last.op = "Delete" /\ last.outcome = "ok") =>
        /\ \A r \in store : r.id # last.id
        /\ cache.list[LastSub] = None
        /\ cache.rec[last.id] = None
        /\ \A m \in Modes :
              /\ RetrieveEffect(LastSub, last.id, m[1], m[2]).last.outcome
                    = "NotFound"
              /\ LET listed == ListEffect(LastSub, m[1], m[2]).last.result
                 IN  \A i \in 1..Len(listed) : listed[i].id # last.id

C15_Witness ==
    /\ last.op = "Delete"
    /\ last.outcome = "ok"
    /\ last.removed = {last.id}
    /\ last.prov /\ last.perr
    /\ remote # {}


\* C16: whenever no operation is in progress and records:<subdomain> is
\* cached, the cached list is the rows now stored for that subdomain, in List
\* order.
C16_CachedListIsCurrent ==
    last = Idle =>
        \A s \in Subdomains :
            cache.list[s] # None =>
                InListOrder(Val(cache.list[s]).value, RowsOf(store, s))


\* C17: every cached records:<subdomain> entry was written with timeout 3600
\* and every cached records:<id> entry with the ttl of the record it holds;
\* after a successful Update, records:<id> holds the updated row with the
\* row's new ttl as timeout.
C17_CacheTimeouts ==
    /\ \A s \in Subdomains :
          cache.list[s] # None => Val(cache.list[s]).timeout = 3600
    /\ \A id \in Ids :
          cache.rec[id] # None =>
              Val(cache.rec[id]).timeout = Val(cache.rec[id]).value.ttl
    /\ (last.op = "Update" /\ last.outcome = "ok") =>
          \E r \in store :
              /\ r.id = last.id
              /\ "ttl" \in DOMAIN Val(last.args) => r.ttl = Val(last.args).ttl
              /\ cache.rec[last.id] = Some([value |-> r, timeout |-> r.ttl])

C17_Witness ==
    /\ last.op = "Update"
    /\ last.outcome = "ok"
    /\ Val(last.args).ttl = 300
    /\ cache.rec[last.id] # None
    /\ Val(cache.rec[last.id]).timeout = 300
    /\ \E s \in Subdomains : cache.list[s] # None


\* C18: with no provider (None) no operation calls the provider or changes
\* the backend, List and Retrieve delete no row (they leave the table as it
\* is), and the row Create saves has no provider id.
C18_NoProviderIsLocalOnly ==
    [][\A s \in Subdomains :
          /\ (\/ ListRecords(s, FALSE, FALSE)
              \/ \E id \in Ids : RetrieveRecord(s, id, FALSE, FALSE)) =>
                 /\ store' = store
                 /\ last'.calls = {}
                 /\ last'.removed = {}
                 /\ UNCHANGED <<remote, remoteNext>>
          /\ (\E kwargs \in CreateInputs : CreateRecord(s, kwargs, FALSE, FALSE)) =>
                 /\ last'.calls = {}
                 /\ UNCHANGED <<remote, remoteNext>>
                 /\ \A r \in store' \ store : r.provider_id = None
          /\ (\/ \E id \in Ids, kwargs \in UpdateInputs :
                     UpdateRecord(s, id, kwargs, FALSE, FALSE)
              \/ \E id \in Ids : DeleteRecord(s, id, FALSE, FALSE)) =>
                 /\ last'.calls = {}
                 /\ UNCHANGED <<remote, remoteNext>>
       ]_vars

C18_Witness ==
    /\ last.op = "Create"
    /\ last.outcome = "ok"
    /\ ~last.prov
    /\ last.calls = {}
    /\ \E r \in store : r.id = last.id /\ r.provider_id = None
    /\ remote # {}


\* C19: whatever the inputs and the state of the table, the cache and the
\* provider, an operation either returns or raises BadRequestError or
\* NotFoundError; no other failure reaches the caller.
C19_OnlyBadRequestAndNotFound ==
    last.outcome \in {"ok", "BadRequest", "NotFound"}


\* C20: after synchronize_records has completed with a provider that did not
\* fail, for every subdomain the provider ids of its rows are exactly the
\* provider ids the provider lists for it, whatever the cache held before.
C20_SyncReconcilesEverySubdomain ==
    (last.op = "Sync" /\ last.outcome = "ok" /\ ~last.perr) =>
        \A s \in Subdomains :
            {r.provider_id : r \in RowsOf(store, s)} = ListedIds(s)


\* C30: after a successful Update that supplies a target for a row whose type
\* is NS, CNAME, MX or SRV, the stored target ends with a dot, whether or not
\* the call supplies the type.
C30_UpdateKeepsTargetDotted ==
    (/\ last.op = "Update" /\ last.outcome = "ok"
     /\ "target" \in DOMAIN Val(last.args)) =>
        \A r \in store :
            (r.id = last.id /\ r.type \in {"NS", "CNAME", "MX", "SRV"}) =>
                (Len(r.target) > 0 /\ r.target[Len(r.target)] = ".")


\* C21: every stored row satisfies the name rule against the subdomain it
\* belongs to: its name ends with the subdomain's name, whichever operation
\* wrote it.
C21_StoredNamesEndWithSubdomain ==
    \A r \in store : EndsWith(r.name, r.subdomain_name)


\* ------------------------------------------------------- the codec claims
\* a service or protocol that is absent or already '_'-prefixed
ValidLabel(o) == IsNone(o) \/ StartsWith(Val(o), <<"_">>)

\* C26: for service and protocol each absent or '_'-prefixed and a non-empty
\* dotted name, split_name of join_name returns the same service, protocol
\* and name.
C26_NameRoundTrip ==
    (/\ last.op = "split_name"
     /\ ValidLabel(last.input.v.service)
     /\ ValidLabel(last.input.v.protocol))
        => last.result = Returned(last.input.v)

\* the 1-token, 2-token and 4-token shapes of (priority, weight, port, target)
Shaped(v) ==
    \/ IsNone(v.priority) /\ IsNone(v.weight) /\ IsNone(v.port)
    \/ ~IsNone(v.priority) /\ IsNone(v.weight) /\ IsNone(v.port)
    \/ ~IsNone(v.priority) /\ ~IsNone(v.weight) /\ ~IsNone(v.port)

\* C27: for (priority, weight, port, target) of the 1-, 2- or 4-token shape,
\* split_data of join_data returns the same four values.
C27_DataRoundTrip ==
    (/\ last.op = "split_data"
     /\ last.input.kind = "data_parts"
     /\ Shaped(last.input.v))
        => last.result = Returned(last.input.v)

C27_Witness ==
    /\ last.op = "split_data"
    /\ last.input.kind = "data_parts"
    /\ ~IsNone(last.input.v.priority)
    /\ ~IsNone(last.input.v.weight)
    /\ ~IsNone(last.input.v.port)
    /\ last.result = Returned(last.input.v)

\* C28: split_data on data of 0, 3 or 5 tokens is an error, and parse_record
\* on a line of too few tokens fails with MalformedRecordError.
C28_MalformedInputRejected ==
    /\ (/\ last.op = "split_data"
        /\ last.input.kind = "data"
        /\ Len(SplitWs(last.input.v)) \notin {1, 2, 4})
           => last.result.exc # "ok"
    /\ (/\ last.op = "parse_record"
        /\ Len(SplitWs(last.input.v)) < 4)
           => last.result.exc = "MalformedRecordError"

\* C25: parse_record of the SRV line yields name sub.example.com, service
\* sip, protocol tcp, ttl 3600, type SRV, priority 10, weight 60, port 5060
\* and target target.example.com.
C25_ParsesSrvLine ==
    (last.op = "parse_record" /\ last.input.v = SrvLine)
        => last.result =
               Returned([name |-> <<"s", "u", "b", ".", "e", "x", "a", "m", "p", "l", "e", ".", "c", "o", "m">>,
                         service |-> Some(<<"s", "i", "p">>),
                         protocol |-> Some(<<"t", "c", "p">>),
                         ttl |-> 3600, type |-> "SRV",
                         priority |-> Some(10), weight |-> Some(60),
                         port |-> Some(5060),
                         target |-> 
                             <<"t", "a", "r", "g", "e", "t", ".", "e", "x", "a", "m", "p", "l", "e", ".", "c", "o", "m", ".">>])

\* C29: to_digitalocean_record then from_digitalocean_record yields the same
\* provider id, service, protocol, name, ttl, type, target, priority, weight
\* and port.
C29_ProviderMappingRoundTrip ==
    last.op = "from_digitalocean_record"
        => last.result = Returned(last.input.v)


\* the lines of a zone that are neither blank nor comments
ContentLines(zone) ==
    SelectSeq(StrippedLines(zone),
              LAMBDA x : Len(x) > 0 /\ x[1] # ";")

\* a line that parses into a record whose name belongs to the subdomain
GoodLine(line, s) ==
    /\ parse_record(line).exc = "ok"
    /\ EndsWith(Val(parse_record(line).val).name, s.name)

\* C24: an import creates one record per line that is neither blank nor a
\* comment; blank lines and lines starting with ';' are skipped without
\* error.
C24_ImportSkipsCommentsAndBlanks ==
    (/\ last.op = "Import"
     /\ \A i \in 1..Len(ContentLines(Val(last.args))) :
            GoodLine(ContentLines(Val(last.args))[i], LastSub))
        => /\ last.outcome = "ok"
           /\ Cardinality(last.saved) = Len(ContentLines(Val(last.args)))


\* ------------------------------------------- the claims on concurrent lists
\* the subdomain the running calls list
ListedSub == Val(running[1].sub)

AllReturned == \A p \in Procs : running[p].pc = "done"

\* the table holds exactly one row per provider record of the subdomain, with
\* the provider's field values, and no other row of the subdomain
OneRowPerProviderRecord ==
    LET prs == ProviderList(remote, ListedSub)
        rows == {r \in store : r.subdomain_name = ListedSub.name}
    IN  /\ \A i \in 1..Len(prs) :
               /\ Cardinality({r \in store :
                                   r.provider_id = prs[i].provider_id}) = 1
               /\ \E r \in rows : \A k \in DOMAIN prs[i] : r[k] = prs[i][k]
        /\ \A r \in rows :
               \E i \in 1..Len(prs) : r.provider_id = prs[i].provider_id

\* the cached list of the subdomain holds the rows of the table, each once
CachedListIsTable ==
    LET rows == {r \in store : r.subdomain_name = ListedSub.name}
        entry == cache.list[ListedSub]
    IN  /\ ~IsNone(entry)
        /\ Len(Val(entry).value) = Cardinality(rows)
        /\ {Val(entry).value[j] : j \in 1..Len(Val(entry).value)} = rows

\* C23: once concurrent List calls of one subdomain have all completed, the
\* table holds exactly one row per provider record with the provider's field
\* values, and the cached list equals the stored rows.
C23_ConcurrentListsConverge ==
    AllReturned
        => /\ \A p \in Procs : running[p].outcome = "ok"
           /\ OneRowPerProviderRecord
           /\ CachedListIsTable

\* both calls have returned, one of them after its insert met the other's
C23_Witness ==
    /\ AllReturned
    /\ \E p \in Procs : running[p].raced
    /\ Cardinality(store) = 2
    /\ OneRowPerProviderRecord
    /\ CachedListIsTable

C33_ListLeavesOtherSubdomains ==
    [][(last = Idle /\ last'.op = "List") =>
           \A r \in store :
               (\/ r.subdomain_name # Val(last'.sub).name
                \/ r.domain # Val(last'.sub).domain) => r \in store']_vars


\* C32: between operations, every entry records:<id> of the cache holds a
\* row that is in the table with the same field values.
C32_RecordCacheIsStored ==
    last = Idle =>
        \A id \in DOMAIN cache.rec :
            ~IsNone(cache.rec[id]) => Val(cache.rec[id]).value \in store


\* C34: a List that misses the cache and reaches the provider removes every
\* row of its subdomain that has no provider id, such as a row Create stored
\* after its provider call failed.
C34_ListRemovesRowsWithoutProviderId ==
    [][\A s \in Subdomains :
          (ListRecords(s, TRUE, FALSE) /\ IsNone(cache.list[s])) =>
              \A r \in store :
                  (r.subdomain_name = s.name /\ IsNone(r.provider_id)) =>
                      /\ \A o \in store' : o.id # r.id
                      /\ r.id \in last'.removed]_vars

\* a List has just removed the row that a Create with a failing provider
\* had stored, whose record the provider never had
C34_Witness ==
    /\ ListReconciled
    /\ last.removed # {}
    /\ store = {}
    /\ remote = {}
    /\ remoteNext = 1


\* ------------------------------------------------- the order of a List
\* a comes before b: by type, then by name, then by id descending
Precedes(a, b) ==
    \/ IndexIn(TypeOrder, a.type) < IndexIn(TypeOrder, b.type)
    \/ /\ a.type = b.type
       /\ \/ StrLess(a.name, b.name)
          \/ a.name = b.name /\ a.id > b.id

\* C31: List returns the stored rows of the subdomain ordered by type, then
\* name, then id descending, and the list cached under the subdomain's key
\* is in that same order.
C31_ListOrder ==
    (last.op = "List" /\ last.outcome = "ok") =>
        /\ \A i, j \in 1..Len(last.result) :
               i < j => Precedes(last.result[i], last.result[j])
        /\ ~last.hit =>
               /\ Len(last.result)
                      = Cardinality({r \in store :
                                         r.subdomain_name = LastSub.name})
               /\ {last.result[i] : i \in 1..Len(last.result)}
                      = {r \in store : r.subdomain_name = LastSub.name}
               /\ cache.list[LastSub]
                      = Some([value |-> last.result, timeout |-> ListTimeout])

\* a List has returned four rows: two that differ in id only, one of another
\* name and one of another type
C31_Witness ==
    /\ last.op = "List"
    /\ ~last.hit
    /\ Len(last.result) = 4
    /\ last.result[1].id = 3
    /\ last.result[2].id = 2
    /\ last.result[3].id = 1
    /\ last.result[4].id = 4


\* --------------------------------- the claims on a mutation beside a List
\* C35: when a Create with an answering provider runs beside a List of the
\* same subdomain, the Create ends without error and, once both have ended,
\* the record it returned is in the table with its id and provider id.
C35_CreateSurvivesList ==
    (AllReturned /\ running[Mutator].op = "Create") =>
        /\ running[Mutator].outcome = "ok"
        /\ \E r \in store :
               /\ r.id = Val(running[Mutator].obj).id
               /\ r.provider_id = Val(running[Mutator].obj).provider_id

\* C36: when a Create, Update or Delete runs beside a List of the same
\* subdomain, once both have ended the list cached for the subdomain is
\* absent or holds exactly the stored rows.
C36_CachedListAfterRace ==
    (AllReturned /\ running[Mutator].op \in {"Create", "Update", "Delete"}) =>
        \/ IsNone(cache.list[SubB])
        \/ /\ Len(Val(cache.list[SubB]).value)
                  = Cardinality({r \in store : r.subdomain_name = SubB.name})
           /\ {Val(cache.list[SubB]).value[j] :
                   j \in 1..Len(Val(cache.list[SubB]).value)}
                  = {r \in store : r.subdomain_name = SubB.name}

====
